---------------------------- MODULE Spec2Model ----------------------------
(***************************************************************************)
(* A model of flaskext.autoindex.AutoIndex (src/flaskext/autoindex/        *)
(* __init__.py): the index service (render_autoindex), the icon rule       *)
(* registration (add_icon_rule) and the static file lookup                 *)
(* (send_static_file).                                                     *)
(*                                                                         *)
(* Strings that the code inspects character by character (request paths,   *)
(* root paths) are sequences of one-character strings.  Names and tokens   *)
(* that the code only compares or passes on are TLA+ strings.              *)
(***************************************************************************)
EXTENDS Integers, Sequences, FiniteSets, TLC

VARIABLES
  fs,             \* the filesystem: node -> "dir" | "file" | "none"
  rootdir,        \* self.rootdir
  icon_map,       \* self.icon_map
  global_static,  \* file names in the bundled static directory
  base_static,    \* file names in <self.base.root_path>/static
  req,            \* the request the caller is putting together
  last            \* the call just made and what it returned

vars == <<fs, rootdir, icon_map, global_static, base_static, req, last>>

-----------------------------------------------------------------------------
(* Bounds *)

MaxPathLen == 4     \* longest request path, in characters
MaxRules == 3       \* longest icon rule list

-----------------------------------------------------------------------------
(* Python values *)

NONE == "None"

Truthy(x) == x # NONE /\ x # ""

NL == "\n"

SLASH == "/"

\* The characters request paths are made of.
PathChars == {SLASH, ".", "a", NL}

RECURSIVE SeqsUpTo(_, _)
SeqsUpTo(S, n) ==
  IF n = 0 THEN {<<>>}
  ELSE LET shorter == SeqsUpTo(S, n - 1)
       IN  shorter \cup {Append(s, c) : s \in {t \in shorter : Len(t) = n - 1}, c \in S}

Paths == SeqsUpTo(PathChars, MaxPathLen)

Front(s) == SubSeq(s, 1, Len(s) - 1)

IsPrefix(s, t) == Len(s) <= Len(t) /\ SubSeq(t, 1, Len(s)) = s

-----------------------------------------------------------------------------
(* The filesystem.  A node is the sequence of names from "/" down to it;   *)
(* a name is a sequence of characters.                                     *)

R == <<"r">>
A == <<"a">>

SlashNode == <<>>
RNode == <<R>>
RANode == <<R, A>>
RAANode == <<R, A, A>>
ANode == <<A>>

Nodes == {SlashNode, RNode, RANode, RAANode, ANode}

\* Every tree over Nodes in which "/" and "/r" are directories and a node
\* exists only inside a directory.
FileSystems ==
  {f \in [Nodes -> {"dir", "file", "none"}] :
      /\ f[SlashNode] = "dir"
      /\ f[RNode] = "dir"
      /\ f[RAANode] \in {"none", "file"}
      /\ (f[RAANode] # "none" => f[RANode] = "dir")}

Kind(f, node) == IF node \in Nodes THEN f[node] ELSE "none"

\* The components of a path between its slashes.
RECURSIVE Components(_)
Components(s) ==
  IF s = <<>> THEN << <<>> >>
  ELSE LET rest == Components(Front(s))
           n == Len(rest)
       IN  IF s[Len(s)] = SLASH
           THEN Append(rest, <<>>)
           ELSE [rest EXCEPT ![n] = Append(rest[n], s[Len(s)])]

NoNode == << <<"?">> >>

\* The node one component further on, or NoNode when the walk fails.
Step(f, cur, comp) ==
  IF cur = NoNode \/ Kind(f, cur) # "dir" THEN NoNode
  ELSE IF comp = <<>> \/ comp = <<".">> THEN cur
  ELSE IF comp = <<".", ".">> THEN (IF cur = <<>> THEN cur ELSE Front(cur))
  ELSE IF Kind(f, Append(cur, comp)) = "none" THEN NoNode
  ELSE Append(cur, comp)

RECURSIVE Walk(_, _, _)
Walk(f, cur, comps) ==
  IF comps = <<>> THEN cur
  ELSE Walk(f, Step(f, cur, Head(comps)), Tail(comps))

\* The node an absolute path names, as the operating system resolves it.
Resolve(f, abspath) ==
  IF abspath = <<>> \/ abspath[1] # SLASH THEN NoNode
  ELSE Walk(f, SlashNode, Components(abspath))

isdir(f, abspath) == Kind(f, Resolve(f, abspath)) = "dir"

isfile(f, abspath) == Kind(f, Resolve(f, abspath)) = "file"

-----------------------------------------------------------------------------
(* entry.py: the root directory and directory entries *)

\* self.rootdir = None
NoRootDirectory == [none |-> TRUE, abspath |-> <<>>]

\* RootDirectory(browse_root, autoindex=self): abspath is the configured root.
RootDirectory(browse_root) == [none |-> FALSE, abspath |-> browse_root]

\* os.path.join(a, b) of posixpath
join(a, b) ==
  IF b # <<>> /\ b[1] = SLASH THEN b
  ELSE IF a = <<>> \/ a[Len(a)] = SLASH THEN a \o b
  ELSE a \o <<SLASH>> \o b

\* Directory(path, rootdir): abspath is derived from the root and the path.
Directory(path, root) == [path |-> path, abspath |-> join(root.abspath, path)]

NoDirectory == [path |-> <<>>, abspath |-> <<>>]

\* curdir.explore(sort_by=..., order=...): the children of the directory, one
\* listing of the directory itself and no deeper.  With at most one child per
\* directory in Nodes the sort key and the order do not show in the result.
explore(f, abspath, sort_by, order) ==
  LET d == Resolve(f, abspath)
  IN  {n \in Nodes : Len(n) = Len(d) + 1 /\ Front(n) = d /\ f[n] # "none"}

-----------------------------------------------------------------------------
(* render_autoindex *)

\* Lines 83-86: the root of this call.  A browse_root of None or "" is falsy.
SelectRoot(self_rootdir, browse_root) ==
  IF browse_root # <<>> THEN RootDirectory(browse_root) ELSE self_rootdir

RECURSIVE rstrip(_)
\* s without the slashes at its end
rstrip(s) ==
  IF s # <<>> /\ s[Len(s)] = SLASH THEN rstrip(Front(s)) ELSE s

\* re.sub("\/*$", "", path).  "$" matches at the end of the string and also
\* just before a newline that ends the string, so the leftmost match is the
\* run of slashes before that newline when there is one, and the run of
\* slashes at the end otherwise; the matches after it are empty.
StripSlashes(path) ==
  IF path # <<>> /\ path[Len(path)] = NL
  THEN Append(rstrip(Front(path)), NL)
  ELSE rstrip(path)

\* request.args.get(key, default)
ArgsGet(args, key, default) ==
  IF key \in DOMAIN args THEN args[key] ELSE default

OrderMap == [asc |-> 1, desc |-> -1]

\* A plausible slip: an unknown token falls back to ascending.
OrderOf_default(token) ==
  IF token \in DOMAIN OrderMap THEN OrderMap[token] ELSE 1

\* {"asc": 1, "desc": -1}[token]; 0 stands for the KeyError of a token that
\* is not a key.
OrderOf(token) ==
  IF token \in DOMAIN OrderMap THEN OrderMap[token] ELSE 0

NoResponse ==
  [kind |-> "none", rootdir |-> NoRootDirectory, path |-> <<>>,
   abspath |-> <<>>, curdir |-> NoDirectory, sort_by |-> NONE, order |-> 0,
   entries |-> {}]

\* A plausible slip: the elif branch of line 104 left out.
Respond_nofile(f, root, path, abspath, args) ==
  LET base == [NoResponse EXCEPT !.rootdir = root, !.path = path,
                                 !.abspath = abspath]
  IN  IF isdir(f, abspath)
      THEN LET sort_by == ArgsGet(args, "sort_by", "name")
               order == OrderOf(ArgsGet(args, "order", "asc"))
           IN  IF order = 0
               THEN [base EXCEPT !.kind = "KeyError"]
               ELSE [base EXCEPT !.kind = "listing", !.sort_by = sort_by,
                                 !.curdir = Directory(path, root),
                                 !.order = order,
                                 !.entries = explore(f, abspath, sort_by, order)]
      ELSE [base EXCEPT !.kind = "NotFound"]

\* Lines 89-107: a listing context for a directory (handed to
\* render_template), send_file for a file, abort(404) otherwise.
Respond(f, root, path, abspath, args) ==
  LET base == [NoResponse EXCEPT !.rootdir = root, !.path = path,
                                 !.abspath = abspath]
  IN  IF isdir(f, abspath)
      THEN LET sort_by == ArgsGet(args, "sort_by", "name")
               order == OrderOf(ArgsGet(args, "order", "asc"))
           IN  IF order = 0
               THEN [base EXCEPT !.kind = "KeyError"]
               ELSE [base EXCEPT !.kind = "listing", !.sort_by = sort_by,
                                 !.curdir = Directory(path, root),
                                 !.order = order,
                                 !.entries = explore(f, abspath, sort_by, order)]
      ELSE IF isfile(f, abspath)
      THEN [base EXCEPT !.kind = "file"]
      ELSE [base EXCEPT !.kind = "NotFound"]

\* A plausible slip: the root of the call kept on the instance.
render_autoindex_keeproot(self_rootdir, self_icon_map, f, path, browse_root, args) ==
  LET root == SelectRoot(self_rootdir, browse_root)
      p == StripSlashes(path)
  IN  [rootdir |-> root,
       icon_map |-> self_icon_map,
       response |->
         IF root.none
         THEN [NoResponse EXCEPT !.kind = "AttributeError", !.path = p]
         ELSE Respond(f, root, p, join(root.abspath, p), args)]

\* render_autoindex(self, path, browse_root): the instance after the call and
\* the response.  With self.rootdir None and no browse_root, rootdir.abspath
\* of line 88 raises AttributeError.
render_autoindex(self_rootdir, self_icon_map, f, path, browse_root, args) ==
  LET root == SelectRoot(self_rootdir, browse_root)
      p == StripSlashes(path)
  IN  [rootdir |-> self_rootdir,
       icon_map |-> self_icon_map,
       response |->
         IF root.none
         THEN [NoResponse EXCEPT !.kind = "AttributeError", !.path = p]
         ELSE Respond(f, root, p, join(root.abspath, p), args)]

-----------------------------------------------------------------------------
(* add_icon_rule *)

\* The callables of the docstring: a rule function and an icon function.
Callables == {"has_long_name", "get_favicon"}

callable(x) == x \in Callables

\* A rule of self.icon_map: the icon, and what the rule matches on.
IconRule(icon, kind, arg) == [icon |-> icon, kind |-> kind, arg |-> arg]

\* entry.py, File.add_icon_rule_by_ext(icon, ext)
File_add_icon_rule_by_ext(m, icon, ext) == Append(m, IconRule(icon, "ext", ext))

\* entry.py, File.add_icon_rule_by_mimetype(icon, mimetype)
File_add_icon_rule_by_mimetype(m, icon, mimetype) ==
  Append(m, IconRule(icon, "mimetype", mimetype))

\* entry.py, File.add_icon_rule_by_name(icon, name): matches files
File_add_icon_rule_by_name(m, icon, name) ==
  Append(m, IconRule(icon, "filename", name))

\* entry.py, Directory.add_icon_rule_by_name(icon, name): matches directories
Directory_add_icon_rule_by_name(m, icon, name) ==
  Append(m, IconRule(icon, "dirname", name))

\* entry.py, Entry.add_icon_rule_by_class(icon, cls)
Entry_add_icon_rule_by_class(m, icon, cls) ==
  Append(m, IconRule(icon, "class", cls))

\* entry.py, Entry.add_icon_rule(icon, rule)
Entry_add_icon_rule(m, icon, rule) == Append(m, IconRule(icon, "rule", rule))

\* Lines 168-177: one rule for each of ext, mimetype, filename, dirname, cls
\* that is given.
AddShortcuts(m, icon, ext, mimetype, filename, dirname, cls) ==
  LET m1 == IF Truthy(ext) THEN File_add_icon_rule_by_ext(m, icon, ext) ELSE m
      m2 == IF Truthy(mimetype)
            THEN File_add_icon_rule_by_mimetype(m1, icon, mimetype) ELSE m1
      m3 == IF Truthy(filename)
            THEN File_add_icon_rule_by_name(m2, icon, filename) ELSE m2
      m4 == IF Truthy(dirname)
            THEN Directory_add_icon_rule_by_name(m3, icon, dirname) ELSE m3
  IN  IF Truthy(cls) THEN Entry_add_icon_rule_by_class(m4, icon, cls) ELSE m4

\* A plausible slip: the custom rule registered before the shortcuts.
add_icon_rule_rulefirst(self_icon_map, icon, rule, ext, mimetype, name, filename, dirname, cls) ==
  LET m0 == IF callable(rule) \/ callable(icon)
            THEN Entry_add_icon_rule(self_icon_map, icon, rule)
            ELSE self_icon_map
  IN  AddShortcuts(m0, icon, ext, mimetype,
                   IF Truthy(name) THEN name ELSE filename, dirname, cls)

\* A plausible slip: the custom rule put at the head of the list
\* (insert(0, ...)) so that it is consulted first.
add_icon_rule_inserthead(self_icon_map, icon, rule, ext, mimetype, name, filename, dirname, cls) ==
  LET m5 == AddShortcuts(self_icon_map, icon, ext, mimetype,
                         IF Truthy(name) THEN name ELSE filename, dirname, cls)
  IN  IF callable(rule) \/ callable(icon)
      THEN <<IconRule(icon, "rule", rule)>> \o m5
      ELSE m5

\* add_icon_rule(self, icon, rule, ext, mimetype, name, filename, dirname,
\* cls): self.icon_map after the call.  Lines 165-167 set filename to name
\* when name is given; the directoryname they also set is read nowhere.
add_icon_rule(self_icon_map, icon, rule, ext, mimetype, name, filename, dirname, cls) ==
  LET filename1 == IF Truthy(name) THEN name ELSE filename
      m5 == AddShortcuts(self_icon_map, icon, ext, mimetype, filename1,
                         dirname, cls)
  IN  IF callable(rule) \/ callable(icon)
      THEN Entry_add_icon_rule(m5, icon, rule)
      ELSE m5

-----------------------------------------------------------------------------
(* send_static_file *)

\* send_from_directory(static, filename): the file of that directory, or 404.
send_from_directory(files, static, filename) ==
  [static |-> static, filename |-> filename, found |-> filename \in files]

\* A plausible slip: the application's directory looked in first.
send_static_file_basefirst(g_static, b_static, filename) ==
  IF filename \in b_static
  THEN send_from_directory(b_static, "base", filename)
  ELSE send_from_directory(g_static, "global", filename)

\* send_static_file(filename): os.path.isfile(join(global_static, filename))
\* is the membership of filename in the bundled directory.
send_static_file(g_static, b_static, filename) ==
  IF filename \in g_static
  THEN send_from_directory(g_static, "global", filename)
  ELSE send_from_directory(b_static, "base", filename)

-----------------------------------------------------------------------------
(* The index service: requests against one instance *)

\* The root given at construction, and the root a call may give instead.
CtorRoot == <<SLASH, "r">>
OtherRoot == <<SLASH, "a">>

\* The values a query string may give to each key.
QueryValues == [order |-> {"asc", "desc", "up"}, sort_by |-> {"size"}]

NoArgs == [k \in {} |-> ""]

NoRequest == [path |-> <<>>, browse_root |-> <<>>, args |-> NoArgs]

NoCall == [op |-> "init"]

\* The rule list after a setup of one call, as in the docstring:
\* idx.add_icon_rule("ruby.png", ext="ruby")
SetupRules ==
  add_icon_rule(<<>>, "ruby.png", NONE, "ruby", NONE, NONE, NONE, NONE, NONE)

\* AutoIndex(base, browse_root) over some filesystem (lines 61-68: with a
\* falsy browse_root, self.rootdir is None), and the rules of the setup.
InitRender ==
  /\ fs \in FileSystems
  /\ \E browse_root \in {<<>>, CtorRoot} :
       rootdir = IF browse_root # <<>> THEN RootDirectory(browse_root)
                 ELSE NoRootDirectory
  /\ icon_map = SetupRules
  /\ global_static = {}
  /\ base_static = {}
  /\ req = NoRequest
  /\ last = NoCall

\* The caller extends the path of the request by one character.
TypePath ==
  /\ last = NoCall
  /\ Len(req.path) < MaxPathLen
  /\ \E c \in PathChars : req' = [req EXCEPT !.path = Append(@, c)]
  /\ UNCHANGED <<fs, rootdir, icon_map, global_static, base_static, last>>

\* The caller adds a key to the query string.
SetArg ==
  /\ last = NoCall
  /\ \E k \in DOMAIN QueryValues \ DOMAIN req.args :
       \E v \in QueryValues[k] :
         req' = [req EXCEPT !.args = [j \in DOMAIN @ \cup {k} |->
                                        IF j = k THEN v ELSE @[j]]]
  /\ UNCHANGED <<fs, rootdir, icon_map, global_static, base_static, last>>

\* The caller passes a browse_root of its own.
SetBrowseRoot ==
  /\ last = NoCall
  /\ req.browse_root = <<>>
  /\ req' = [req EXCEPT !.browse_root = OtherRoot]
  /\ UNCHANGED <<fs, rootdir, icon_map, global_static, base_static, last>>

\* render_autoindex(path, browse_root) is called with the request.
Render ==
  /\ last = NoCall
  /\ LET r == render_autoindex(rootdir, icon_map, fs, req.path,
                               req.browse_root, req.args)
     IN  /\ rootdir' = r.rootdir
         /\ icon_map' = r.icon_map
         /\ last' = [op |-> "render_autoindex", response |-> r.response]
  /\ UNCHANGED <<fs, global_static, base_static, req>>

\* The response has gone out; the next request starts.
Finish ==
  /\ last # NoCall
  /\ last' = NoCall
  /\ req' = NoRequest
  /\ UNCHANGED <<fs, rootdir, icon_map, global_static, base_static>>

NextRender == TypePath \/ SetArg \/ SetBrowseRoot \/ Render \/ Finish

SpecRender == InitRender /\ [][NextRender]_vars

-----------------------------------------------------------------------------
(* The icon rules: add_icon_rule calls against one instance *)

Icons == {"page.png", "get_favicon"}

\* AutoIndex(base): self.icon_map = [] (line 67).
InitIcon ==
  /\ fs = [n \in Nodes |-> IF n \in {SlashNode, RNode} THEN "dir" ELSE "none"]
  /\ rootdir = RootDirectory(CtorRoot)
  /\ icon_map = <<>>
  /\ global_static = {}
  /\ base_static = {}
  /\ req = NoRequest
  /\ last = NoCall

\* One call of add_icon_rule, each keyword left out or given.
AddIconRule ==
  /\ Len(icon_map) < MaxRules
  /\ \E icon \in Icons, rule \in {NONE, "has_long_name"}, ext \in {NONE, "txt"},
        mimetype \in {NONE, "image/*"}, name \in {NONE, "error"},
        filename \in {NONE, "README"}, dirname \in {NONE, "docs"},
        cls \in {NONE, "File"} :
       LET m == add_icon_rule(icon_map, icon, rule, ext, mimetype, name,
                              filename, dirname, cls)
       IN  /\ icon_map' = m
           /\ last' = [op |-> "add_icon_rule", icon |-> icon, rule |-> rule,
                       ext |-> ext, mimetype |-> mimetype, name |-> name,
                       filename |-> filename, dirname |-> dirname, cls |-> cls,
                       added |-> Len(m) - Len(icon_map)]
  /\ UNCHANGED <<fs, rootdir, global_static, base_static, req>>

NextIcon == AddIconRule

SpecIcon == InitIcon /\ [][NextIcon]_vars

-----------------------------------------------------------------------------
(* The static files: send_static_file calls against one instance *)

StaticNames == {"folder.png", "page.png", "site.css"}

\* The bundled static directory and the application's, each with some files.
InitStatic ==
  /\ fs = [n \in Nodes |-> IF n \in {SlashNode, RNode} THEN "dir" ELSE "none"]
  /\ rootdir = RootDirectory(CtorRoot)
  /\ icon_map = <<>>
  /\ global_static \in SUBSET StaticNames
  /\ base_static \in SUBSET StaticNames
  /\ req = NoRequest
  /\ last = NoCall

\* One call of send_static_file(filename).
SendStaticFile ==
  /\ \E filename \in StaticNames :
       last' = [op |-> "send_static_file",
                response |-> send_static_file(global_static, base_static, filename)]
  /\ UNCHANGED <<fs, rootdir, icon_map, global_static, base_static, req>>

NextStatic == SendStaticFile

SpecStatic == InitStatic /\ [][NextStatic]_vars

-----------------------------------------------------------------------------
(* Properties of render_autoindex, under SpecRender *)

Rendered == last.op = "render_autoindex"

Resp == last.response

\* The order token of the request, "asc" when the query string has none.
OrderToken == ArgsGet(req.args, "order", "asc")

\* Whether the call has a root: one of its own or the one of the instance.
RootInEffect == req.browse_root # <<>> \/ ~rootdir.none

\* What the filesystem holds at the absolute path of the response.
TargetKind == Kind(fs, Resolve(fs, Resp.abspath))

\* Whether the absolute path of the response names a node at or below the
\* root directory of the call.
InsideRoot ==
  /\ Resolve(fs, Resp.rootdir.abspath) # NoNode
  /\ IsPrefix(Resolve(fs, Resp.rootdir.abspath), Resolve(fs, Resp.abspath))

\* C1: a listing or a file stream is only ever produced for a location at or
\* below the browse root; a path that leaves the root is rejected.
C1_NeverServesOutsideRoot ==
  (Rendered /\ Resp.kind \in {"listing", "file"}) => InsideRoot

\* C2 as stated, for a call that has a root: the outcome is a listing context
\* exactly when the target is a directory, a file stream exactly when it is a
\* file, NotFound exactly when it is neither, and nothing else.
C2_ThreeOutcomes ==
  (Rendered /\ RootInEffect) =>
    /\ Resp.kind \in {"listing", "file", "NotFound"}
    /\ (Resp.kind = "listing") <=> (TargetKind = "dir")
    /\ (Resp.kind = "file") <=> (TargetKind = "file")
    /\ (Resp.kind = "NotFound") <=> (TargetKind = "none")

\* C2 as amended: without any root the call fails with AttributeError; with a
\* root, a directory gives the listing context (curdir, path, entries,
\* sort_by, order) when the order token is asc or desc and KeyError when it
\* is anything else, a file gives a file stream, and neither gives NotFound.
C2_OutcomeByTargetAndOrder ==
  Rendered =>
    IF ~RootInEffect THEN Resp.kind = "AttributeError"
    ELSE /\ Resp.abspath = join(Resp.rootdir.abspath, Resp.path)
         /\ TargetKind = "dir" /\ OrderToken \in {"asc", "desc"} =>
              /\ Resp.kind = "listing"
              /\ Resp.curdir = [path |-> Resp.path, abspath |-> Resp.abspath]
              /\ Resp.entries =
                   {n \in Nodes : /\ n # SlashNode
                                  /\ Front(n) = Resolve(fs, Resp.abspath)
                                  /\ fs[n] # "none"}
              /\ Resp.sort_by = ArgsGet(req.args, "sort_by", "name")
              /\ Resp.order \in {1, -1}
         /\ TargetKind = "dir" /\ OrderToken \notin {"asc", "desc"} =>
              Resp.kind = "KeyError"
         /\ TargetKind = "file" => Resp.kind = "file"
         /\ TargetKind = "none" => Resp.kind = "NotFound"

\* A directory with a child has been listed.
C2_Witness ==
  /\ Rendered
  /\ Resp.kind = "listing"
  /\ Resp.entries # {}
  /\ Resp.path # <<>>

\* C3 as stated, for a call that has a root: asc gives order 1, desc gives
\* order -1, and any other order token makes the request fail with the
\* invalid-order error (the KeyError of line 91), whatever the target is.
C3_InvalidOrderAlwaysFails ==
  (Rendered /\ RootInEffect) =>
    /\ Resp.kind = "listing" => Resp.order = OrderMap[OrderToken]
    /\ OrderToken \notin {"asc", "desc"} => Resp.kind = "KeyError"

\* C3 as amended: the order token is read only when the target is a
\* directory.  There asc (also when no token is given) gives a listing with
\* order 1, desc a listing with order -1, and any other token fails with
\* KeyError and gives no listing; for a file or a missing target the token
\* is not read, and the file is streamed or NotFound returned whatever it is.
C3_OrderReadForDirectories ==
  (Rendered /\ RootInEffect) =>
    /\ (TargetKind = "dir" /\ OrderToken = "asc") =>
         (Resp.kind = "listing" /\ Resp.order = 1)
    /\ (TargetKind = "dir" /\ OrderToken = "desc") =>
         (Resp.kind = "listing" /\ Resp.order = -1)
    /\ (TargetKind = "dir" /\ OrderToken \notin {"asc", "desc"}) =>
         Resp.kind = "KeyError"
    /\ TargetKind = "file" => Resp.kind = "file"
    /\ TargetKind = "none" => Resp.kind = "NotFound"

\* A directory has been requested with an order token that is no key.
C3_Witness ==
  /\ Rendered
  /\ "order" \in DOMAIN req.args
  /\ req.args["order"] = "up"
  /\ TargetKind = "dir"
  /\ Resp.kind = "KeyError"

\* Whether the last k characters of s are all slashes.
EndsInSlashes(s, k) ==
  \A i \in (Len(s) - k + 1)..Len(s) : s[i] = SLASH

\* C8: for a call that has a root, taking slashes off the end of the request
\* path changes neither the absolute path nor the path of the response, and
\* the path of the response is one that stripping leaves alone.
C8_TrailingSlashesIgnored ==
  (Rendered /\ RootInEffect) =>
    /\ StripSlashes(Resp.path) = Resp.path
    /\ \A k \in 0..Len(req.path) :
         EndsInSlashes(req.path, k) =>
           LET p == SubSeq(req.path, 1, Len(req.path) - k)
               r == render_autoindex(rootdir, icon_map, fs, p,
                                     req.browse_root, req.args).response
           IN  r.abspath = Resp.abspath /\ r.path = Resp.path

\* C10: a call of render_autoindex leaves self.rootdir and self.icon_map as
\* they were, and a call without a browse_root resolves against self.rootdir,
\* which is therefore the root given at construction.
C10_RenderKeepsNoState ==
  [][(last'.op = "render_autoindex") =>
        /\ rootdir' = rootdir
        /\ icon_map' = icon_map
        /\ (req.browse_root = <<>> => last'.response.rootdir = rootdir)
        /\ (req.browse_root # <<>> =>
              last'.response.rootdir = RootDirectory(req.browse_root))]_vars

\* A call with a browse_root of its own has been served against that root,
\* and the instance still has the root and the rules it was set up with.
C10_Witness ==
  /\ Rendered
  /\ req.browse_root = OtherRoot
  /\ Resp.rootdir.abspath = OtherRoot
  /\ Resp.kind \in {"listing", "file"}
  /\ rootdir = RootDirectory(CtorRoot)
  /\ icon_map = SetupRules

-----------------------------------------------------------------------------
(* Properties of add_icon_rule, under SpecIcon *)

Added == last.op = "add_icon_rule"

\* The rules the last call appended.
NewRules == SubSeq(icon_map, Len(icon_map) - last.added + 1, Len(icon_map))

HasNewRule(kind, arg) ==
  \E i \in DOMAIN NewRules : NewRules[i] = IconRule(last.icon, kind, arg)

\* The priority of section 3 of the specification: custom rule, extension,
\* mimetype, name, class.
SpecRank ==
  [rule |-> 1, ext |-> 2, mimetype |-> 3, filename |-> 4, dirname |-> 4,
   class |-> 5]

\* The order of lines 168-179.
CodeRank ==
  [ext |-> 1, mimetype |-> 2, filename |-> 3, dirname |-> 4, class |-> 5,
   rule |-> 6]

\* C4 as stated: the rules of one call are appended custom rule first, then
\* extension, mimetype, name and class.
C4_CustomRuleFirst ==
  Added =>
    \A i, j \in DOMAIN NewRules :
      i < j => SpecRank[NewRules[i].kind] <= SpecRank[NewRules[j].kind]

\* C4 as amended: the rules of one call are appended extension first, then
\* mimetype, file name, directory name and class, and the custom rule last.
C4_CustomRuleLast ==
  Added =>
    /\ \A i, j \in DOMAIN NewRules :
         i < j => CodeRank[NewRules[i].kind] < CodeRank[NewRules[j].kind]
    /\ (callable(last.rule) \/ callable(last.icon)) =>
         /\ last.added > 0
         /\ NewRules[last.added] = IconRule(last.icon, "rule", last.rule)

\* One call has given a custom rule, an extension and a class.
C4_Witness ==
  /\ Added
  /\ last.rule = "has_long_name"
  /\ last.ext # NONE
  /\ last.cls # NONE
  /\ last.added = 3

\* C5: after add_icon_rule(icon, name=N) the call has appended a file name
\* rule for N and a directory name rule for N.
C5_NameMatchesFilesAndDirectories ==
  (Added /\ Truthy(last.name)) =>
    HasNewRule("filename", last.name) /\ HasNewRule("dirname", last.name)

\* C6: the rule list is empty at construction and every step leaves the list
\* it had as a prefix of the list it has.
C6_AppendOnly ==
  (icon_map = <<>>) /\ [][IsPrefix(icon_map, icon_map')]_vars

\* A call has appended rules behind the rules of an earlier call.
C6_Witness ==
  /\ Added
  /\ last.added > 1
  /\ Len(icon_map) > last.added

\* C7: every shape given to a call has a rule of its own among the rules the
\* call appended, made from that shape's own argument; a call with no shape
\* and an icon that is not callable appends nothing.
C7_EachShapeItsOwnRule ==
  Added =>
    /\ callable(last.rule) => HasNewRule("rule", last.rule)
    /\ Truthy(last.ext) => HasNewRule("ext", last.ext)
    /\ Truthy(last.mimetype) => HasNewRule("mimetype", last.mimetype)
    /\ Truthy(last.name) =>
         (HasNewRule("filename", last.name) \/ HasNewRule("dirname", last.name))
    /\ Truthy(last.filename) => HasNewRule("filename", last.filename)
    /\ Truthy(last.dirname) => HasNewRule("dirname", last.dirname)
    /\ Truthy(last.cls) => HasNewRule("class", last.cls)
    /\ (/\ ~callable(last.icon)
        /\ \A x \in {last.rule, last.ext, last.mimetype, last.name,
                     last.filename, last.dirname, last.cls} : x = NONE)
         => last.added = 0

-----------------------------------------------------------------------------
(* Properties of send_static_file, under SpecStatic *)

Sent == last.op = "send_static_file"

\* C9: a file name the bundled static directory has is served from there,
\* also when the application's directory has it too; only a name the bundled
\* directory lacks is looked up in the application's directory.
C9_BundledFirst ==
  Sent =>
    /\ Resp.filename \in global_static =>
         (Resp.static = "global" /\ Resp.found)
    /\ Resp.filename \notin global_static =>
         (Resp.static = "base" /\ (Resp.found <=> Resp.filename \in base_static))

\* A name that both directories have has been served from the bundled one.
C9_Witness ==
  /\ Sent
  /\ Resp.filename \in global_static \cap base_static
  /\ Resp.static = "global"

=============================================================================
